---- MODULE Spec2Model ----
(***************************************************************************)
(* Session state machine of src/src/Monitor.py: monitor_loop reads one     *)
(* audio block per iteration, the voice-activity gate sends it either to   *)
(* parse_sample (speech) or to silence (no speech), and a KeyboardInterrupt*)
(* ends the loop with the final report.                                    *)
(*                                                                         *)
(* Time is counted in quarter seconds, so that the 1.75 s silence timeout  *)
(* and the 4 s cue cooldown are whole numbers.  total_time, in_range_time  *)
(* and streak are counted in seconds (the code adds 1.0 per block).        *)
(* Percentages are kept in tenths of a percent, the precision of the       *)
(* "{percent:.1f}" format the code prints and writes.                      *)
(***************************************************************************)
EXTENDS Integers, Sequences, FiniteSets, TLC

\* ---------------------------------------------------------------- bounds
\* time.time() at the start of the session, far above the 4 s cooldown.
Epoch == 20
\* length of the modelled session, in quarter seconds.
Horizon == 24
\* length of the sessions that run past the first minute of speech.
LongHorizon == 256

\* ------------------------------------------------------ program constants
\* trackers["sentence_start"] / ["sentence_last"] before the first sentence.
None == -1
\* now - sentence_last > 1.75
SilenceTimeout == 7
\* current_time - last_error > 4
ErrorCooldown == 16
\* int(trackers["total_time"]) % 60
Minute == 60

\* --------------------------------------------------------------- inputs
\* pitch_from_audio returns 0.0 (nothing voiced) or the median voiced pitch.
Pitches == {0, 100, 150, 200, 250}
\* --min / --max given on the command line (UI.py accepts 0..999).
Ranges == {<<100, 200>>, <<0, 200>>}
\* time between the clock readings of consecutive blocks: one block
\* length (block_len = 1.0 s).
Ticks == {4}
\* where an exception is raised while parse_sample handles a block.
Faults == {"none", "pitch", "formant", "write"}

VARIABLES args, trackers, now, pc, out, hist, source, playback

vars == <<args, trackers, now, pc, out, hist, source, playback>>

\* --------------------------------------------------------------- playback
\* The keys of the SOUNDS registry (lines 11-14).
SoundKeys == {"error", "pinpon"}

\* lines 97-102: play_sound_threaded starts a daemon thread that runs _play
\* and returns without waiting for it.
play_sound_threaded(s, sound_key) ==
    [s EXCEPT !.out.played = @ \cup {sound_key},
              !.pb.threads[sound_key] = @ + 1]

\* _play clearing the error flag of the session when it has played.
_play_ClearsError(w, sound_key) ==
    [w EXCEPT !.pb.threads[sound_key] = @ - 1,
              !.pb.heard = IF w.pb.SOUNDS[sound_key]
                           THEN @ \cup {sound_key} ELSE @,
              !.tr.error = FALSE]

\* _play without the test `if sound'.
_play_NoNoneTest(w, sound_key) ==
    [w EXCEPT !.pb.threads[sound_key] = @ - 1,
              !.pb.heard = @ \cup {sound_key}]

\* lines 98-101: _play, the body of a playback thread, to its end: it looks
\* the sound up and plays it if it was loaded.  w holds the trackers and
\* the playback state the thread runs beside.
_play(w, sound_key) ==
    [w EXCEPT !.pb.threads[sound_key] = @ - 1,
              !.pb.heard = IF w.pb.SOUNDS[sound_key]
                           THEN @ \cup {sound_key} ELSE @]

\* lines 104-110: load_sounds loads error.wav, then pin-pon.wav; the first
\* exception ends it and leaves the remaining entries None (FALSE).
LoadOutcomes ==
    {[error |-> TRUE, pinpon |-> TRUE],
     [error |-> TRUE, pinpon |-> FALSE],
     [error |-> FALSE, pinpon |-> FALSE]}

\* load_sounds without an exception.
AllLoaded == [error |-> TRUE, pinpon |-> TRUE]

\* The playback state after load_sounds: the registry, the playback
\* threads started and not yet finished, the sounds played so far.
InitPlayback(sounds) ==
    [SOUNDS |-> sounds,
     threads |-> [k \in SoundKeys |-> 0],
     heard |-> {}]

\* ------------------------------------------------------------ formatting
\* Pairs (in_range, total), total < 130, where the double (in/total)*100
\* lies on the other side of an exact .x5 tie than the exact quotient.
FloatTieFlips == {<<23, 80>>, <<49, 80>>, <<51, 80>>}

\* FormatPercent cutting the digits after the first decimal instead of
\* rounding.
FormatPercent_Truncating(in_range, total) == (1000 * in_range) \div total

\* f"{(in_range / total) * 100:.1f}", in tenths of a percent: the nearest
\* tenth, an exact tie going to the even tenth (round-half-even of the
\* double), except where the double is not the exact quotient.
FormatPercent(in_range, total) ==
    LET q == (1000 * in_range) \div total
        r == (1000 * in_range) % total
        even == IF q % 2 = 0 THEN q ELSE q + 1
        odd == IF q % 2 = 0 THEN q + 1 ELSE q
    IN  IF 2 * r < total THEN q
        ELSE IF 2 * r > total THEN q + 1
        ELSE IF <<in_range, total>> \in FloatTieFlips THEN odd
        ELSE even

\* ---------------------------------------------------------- parse_sample
\* InRange with the upper end of the range excluded.
InRange_MaxExcluded(a, pitch) == a.min <= pitch /\ pitch < a.max

\* args.min <= pitch <= args.max
InRange(a, pitch) == a.min <= pitch /\ pitch <= a.max

\* ClassifyPitch requesting the cue from the end of the cooldown on (>=).
ClassifyPitch_AtCooldown(s, a, pitch, current_time) ==
    IF InRange(a, pitch)
    THEN [s EXCEPT !.tr.in_range_time = @ + 1, !.tr.streak = @ + 1]
    ELSE LET s1 == [s EXCEPT !.tr.streak = 0,
                             !.tr.error = IF s.tr.sentence THEN TRUE ELSE @]
         IN  IF a.out_of_range
                /\ current_time - s1.tr.last_error_time >= ErrorCooldown
             THEN [play_sound_threaded(s1, "error")
                     EXCEPT !.tr.last_error_time = current_time]
             ELSE s1

\* ClassifyPitch setting the error flag with no sentence active.
ClassifyPitch_ErrorAlways(s, a, pitch, current_time) ==
    IF InRange(a, pitch)
    THEN [s EXCEPT !.tr.in_range_time = @ + 1, !.tr.streak = @ + 1]
    ELSE LET s1 == [s EXCEPT !.tr.streak = 0, !.tr.error = TRUE]
         IN  IF a.out_of_range
                /\ current_time - s1.tr.last_error_time > ErrorCooldown
             THEN [play_sound_threaded(s1, "error")
                     EXCEPT !.tr.last_error_time = current_time]
             ELSE s1

\* ClassifyPitch restarting the cooldown at every out-of-range block.
ClassifyPitch_RestartsCooldown(s, a, pitch, current_time) ==
    IF InRange(a, pitch)
    THEN [s EXCEPT !.tr.in_range_time = @ + 1, !.tr.streak = @ + 1]
    ELSE LET s1 == [s EXCEPT !.tr.streak = 0,
                             !.tr.error = IF s.tr.sentence THEN TRUE ELSE @]
         IN  IF a.out_of_range
             THEN IF current_time - s1.tr.last_error_time > ErrorCooldown
                  THEN [play_sound_threaded(s1, "error")
                          EXCEPT !.tr.last_error_time = current_time]
                  ELSE [s1 EXCEPT !.tr.last_error_time = current_time]
             ELSE s1

\* lines 128-141: the pitch-range branch.
ClassifyPitch(s, a, pitch, current_time) ==
    IF InRange(a, pitch)
    THEN [s EXCEPT !.tr.in_range_time = @ + 1, !.tr.streak = @ + 1]
    ELSE LET s1 == [s EXCEPT !.tr.streak = 0,
                             !.tr.error = IF s.tr.sentence THEN TRUE ELSE @]
         IN  IF a.out_of_range
                /\ current_time - s1.tr.last_error_time > ErrorCooldown
             THEN [play_sound_threaded(s1, "error")
                     EXCEPT !.tr.last_error_time = current_time]
             ELSE s1

\* line 143
CountBlock(s) == [s EXCEPT !.tr.total_time = @ + 1]

\* lines 146-148: the in-range percentage printed for the block.
ReportPercent(s) ==
    IF s.tr.total_time > 0
    THEN [s EXCEPT !.out.percent =
                      FormatPercent(s.tr.in_range_time, s.tr.total_time)]
    ELSE s

\* TrackSentence without the test of the error flag at line 156.
TrackSentence_IgnoresError(s, a, current_time) ==
    IF ~a.sentence_monitor THEN s
    ELSE IF s.tr.sentence = FALSE
         THEN [s EXCEPT !.tr.sentence = TRUE,
                        !.tr.sentence_start = current_time,
                        !.tr.sentence_last = current_time]
         ELSE [s EXCEPT !.tr.sentence_last = current_time]

\* TrackSentence moving sentence_start with sentence_last at line 157.
TrackSentence_MovesStart(s, a, current_time) ==
    IF ~a.sentence_monitor THEN s
    ELSE IF s.tr.sentence = FALSE
         THEN [s EXCEPT !.tr.sentence = TRUE,
                        !.tr.sentence_start = current_time,
                        !.tr.sentence_last = current_time]
         ELSE IF s.tr.error = FALSE
              THEN [s EXCEPT !.tr.sentence_start = current_time,
                             !.tr.sentence_last = current_time]
              ELSE s

\* TrackSentence without the test of --sentence-monitor.
TrackSentence_WithoutToggle(s, a, current_time) ==
    IF ~s.tr.sentence
    THEN [s EXCEPT !.tr.sentence = TRUE,
                   !.tr.sentence_start = current_time,
                   !.tr.sentence_last = current_time]
    ELSE IF ~s.tr.error
         THEN [s EXCEPT !.tr.sentence_last = current_time]
         ELSE s

\* lines 151-157: sentence tracking.
TrackSentence(s, a, current_time) ==
    IF ~a.sentence_monitor THEN s
    ELSE IF s.tr.sentence = FALSE
         THEN [s EXCEPT !.tr.sentence = TRUE,
                        !.tr.sentence_start = current_time,
                        !.tr.sentence_last = current_time]
         ELSE IF s.tr.error = FALSE
              THEN [s EXCEPT !.tr.sentence_last = current_time]
              ELSE s

\* WriteDue testing that a minute has passed instead of the minute boundary.
WriteDue_AfterFirstMinute(s, a) ==
    a.score /\ s.tr.total_time >= Minute /\ ~s.tr.score_written

\* line 181: the condition under which score.txt is written.
WriteDue(s, a) ==
    a.score /\ s.tr.total_time % Minute = 0 /\ ~s.tr.score_written

\* lines 181-186: write score.txt once per minute of processed time.
PersistScore(s, a) ==
    IF WriteDue(s, a)
    THEN [s EXCEPT !.out.writes =
                      Append(@, [at |-> s.tr.total_time,
                                 pct |-> s.out.percent]),
                   !.tr.score_written = TRUE]
    ELSE IF s.tr.total_time % Minute # 0
         THEN [s EXCEPT !.tr.score_written = FALSE]
         ELSE s

\* The stages of parse_sample in program order; stage 5 (resonance, lines
\* 161-177) only prints.
ParseStage(i, s, a, pitch, current_time) ==
    CASE i = 1 -> ClassifyPitch(s, a, pitch, current_time)
      [] i = 2 -> CountBlock(s)
      [] i = 3 -> ReportPercent(s)
      [] i = 4 -> TrackSentence(s, a, current_time)
      [] i = 5 -> s
      [] i = 6 -> PersistScore(s, a)

NumStages == 6

RECURSIVE RunStages(_, _, _, _, _, _)
RunStages(s, a, pitch, current_time, i, last) ==
    IF i > last THEN s
    ELSE RunStages(ParseStage(i, s, a, pitch, current_time),
                   a, pitch, current_time, i + 1, last)

\* parse_sample run until an exception leaves it after `last' stages
\* (last = NumStages: it returns normally).
parse_sample(s, a, pitch, current_time, last) ==
    RunStages(s, a, pitch, current_time, 1, last)

\* StagesBefore with the formant extraction moved between the pitch-range
\* branch and line 143.
StagesBefore_FormantsBeforeCount(f) ==
    CASE f = "none" -> NumStages
      [] f = "pitch" -> 0
      [] f = "formant" -> 1
      [] f = "write" -> 5
      [] f = "interrupt" -> 1

\* The number of stages completed when the fault f is raised: the pitch
\* extraction (line 122) precedes every update, the formant extraction
\* (line 162) follows the sentence tracking, open() (line 182) is the
\* first statement of the score write.
StagesBefore(f) ==
    CASE f = "none" -> NumStages
      [] f = "pitch" -> 0
      [] f = "formant" -> 4
      [] f = "write" -> 5
      [] f = "interrupt" -> 1

\* Whether fault f can be raised on this block.
FaultEnabled(f, s, a, pitch, current_time) ==
    CASE f = "none" -> TRUE
      [] f = "pitch" -> TRUE
      [] f = "formant" -> a.resonance
      [] f = "write" -> WriteDue(parse_sample(s, a, pitch, current_time, 5), a)

\* ---------------------------------------------------------------- silence
\* silence without the test that a sentence is active.
silence_NoActiveTest(s, current_time) ==
    IF s.tr.error
    THEN [s EXCEPT !.tr.sentence = FALSE, !.tr.error = FALSE]
    ELSE IF s.tr.sentence_last # None
            /\ current_time - s.tr.sentence_last > SilenceTimeout
         THEN [play_sound_threaded(s, "pinpon")
                 EXCEPT !.tr.sentence = FALSE,
                        !.tr.score =
                            100 * (s.tr.sentence_last - s.tr.sentence_start)]
         ELSE s

\* silence ending the sentence from the timeout on (>=).
silence_AtTimeout(s, current_time) ==
    IF s.tr.error
    THEN [s EXCEPT !.tr.sentence = FALSE, !.tr.error = FALSE]
    ELSE IF s.tr.sentence /\ s.tr.sentence_last # None
            /\ current_time - s.tr.sentence_last >= SilenceTimeout
         THEN [play_sound_threaded(s, "pinpon")
                 EXCEPT !.tr.sentence = FALSE,
                        !.tr.score =
                            100 * (s.tr.sentence_last - s.tr.sentence_start)]
         ELSE s

\* silence scoring the sentence up to the silent block.
silence_ScoresToNow(s, current_time) ==
    IF s.tr.error
    THEN [s EXCEPT !.tr.sentence = FALSE, !.tr.error = FALSE]
    ELSE IF s.tr.sentence /\ s.tr.sentence_last # None
            /\ current_time - s.tr.sentence_last > SilenceTimeout
         THEN [play_sound_threaded(s, "pinpon")
                 EXCEPT !.tr.sentence = FALSE,
                        !.tr.score = 100 * (current_time - s.tr.sentence_start)]
         ELSE s

\* lines 241-254
silence(s, current_time) ==
    IF s.tr.error
    THEN [s EXCEPT !.tr.sentence = FALSE, !.tr.error = FALSE]
    ELSE IF s.tr.sentence /\ s.tr.sentence_last # None
            /\ current_time - s.tr.sentence_last > SilenceTimeout
         THEN [play_sound_threaded(s, "pinpon")
                 EXCEPT !.tr.sentence = FALSE,
                        !.tr.score =
                            100 * (s.tr.sentence_last - s.tr.sentence_start)]
         ELSE s

\* ----------------------------------------------------------- final report
\* FinalReport reporting only on a minute boundary, as the periodic write.
FinalReport_OnMinuteOnly(s, a) ==
    IF a.score /\ s.tr.total_time > 0 /\ s.tr.total_time % Minute = 0
    THEN [s EXCEPT !.out.final =
                      Append(@, FormatPercent(s.tr.in_range_time,
                                              s.tr.total_time))]
    ELSE s

\* lines 230-234: the except KeyboardInterrupt clause.
FinalReport(s, a) ==
    IF a.score /\ s.tr.total_time > 0
    THEN [s EXCEPT !.out.final =
                      Append(@, FormatPercent(s.tr.in_range_time,
                                              s.tr.total_time))]
    ELSE s

\* ------------------------------------------------------------------ state
\* lines 200-210; "score_written" is absent from the dictionary and read
\* with trackers.get("score_written", False).
InitTrackers ==
    [in_range_time |-> 0, total_time |-> 0, streak |-> 0,
     last_error_time |-> 0, sentence_start |-> None, sentence |-> FALSE,
     sentence_last |-> None, error |-> FALSE, score |-> 0,
     score_written |-> FALSE]

\* What the session does that is visible outside it: the cues whose
\* playback the last block requested (play_sound_threaded), the percentage
\* last printed, the writes of score.txt and the final reports so far.
InitOut ==
    [played |-> {}, percent |-> None, writes |-> <<>>, final |-> <<>>]

\* History of the blocks delivered so far (not program state):
\*   processed  speech blocks on which line 143 was reached
\*   inside     processed blocks whose pitch was inside [min, max]
\*   run        seconds of in-range blocks since the last out-of-range or
\*              silent block
\*   last       the last block: "speech" (its pitch was extracted), "fault"
\*              (the pitch extraction failed), "silent", or "none"
\*   pitch      the pitch of the last block if it was speech, else None
\*   sent_oor   the current (or last) sentence has an out-of-range block
\*   cues       error cue requests so far
\*   cue_at     time of the last error cue request (None: no request)
InitHist ==
    [processed |-> 0, inside |-> 0, run |-> 0, last |-> "none",
     pitch |-> None, sent_oor |-> FALSE, cues |-> 0, cue_at |-> None]

\* The parsed command line (lines 267-280); --self-mute only prints
\* "[MUTED]" (lines 140-141) and is left out.
Args ==
    {[min |-> r[1], max |-> r[2], sentence_monitor |-> sm,
      out_of_range |-> oor, resonance |-> res, score |-> sc] :
        r \in Ranges, sm \in BOOLEAN, oor \in BOOLEAN,
        res \in BOOLEAN, sc \in BOOLEAN}

\* The audio source (stream.read): it delivers blocks until the time
\* `until'; if `script' is not empty, the k-th speech block it delivers has
\* the pitch script[k] and it delivers nothing after the script.
Delivers(pitch, d) ==
    /\ now + d <= source.until
    /\ source.script # <<>> =>
          /\ hist.processed < Len(source.script)
          /\ pitch = source.script[hist.processed + 1]

Start(a, src, sounds) ==
    /\ playback = InitPlayback(sounds)
    /\ args = a
    /\ trackers = InitTrackers
    /\ now = Epoch
    /\ pc = "loop"
    /\ out = InitOut
    /\ hist = InitHist
    /\ source = src

\* The ten one-second speech blocks of the worked example (min = 100,
\* max = 200).
ExamplePitches == <<150, 150, 250, 150, 150, 150, 150, 150, 0, 150>>

\* A session fed with any blocks for Horizon, or the session of the worked
\* example.
Init ==
    \E a \in Args :
        \/ Start(a, [until |-> Epoch + Horizon, script |-> <<>>], AllLoaded)
        \/ /\ a.min = 100 /\ a.max = 200
           /\ Start(a, [until |-> Epoch + 2 * Horizon,
                        script |-> ExamplePitches], AllLoaded)

\* The state a block starts from: no cue requested by this block yet.
State ==
    [tr |-> trackers, out |-> [out EXCEPT !.played = {}], pb |-> playback]

\* min <= pitch <= max, as the history records it.
Inside(pitch) == args.min <= pitch /\ pitch <= args.max

\* The history after a speech block of the given pitch on which
\* parse_sample completed `done' stages and requested the cues `played'.
SpeechHist(pitch, current_time, done, played) ==
    LET classified == done >= 1
        counted == done >= 2
        tracked == done >= 4 /\ args.sentence_monitor
        cued == "error" \in played
    IN  [processed |-> hist.processed + (IF counted THEN 1 ELSE 0),
         inside |-> hist.inside + (IF counted /\ Inside(pitch) THEN 1 ELSE 0),
         run |-> IF ~classified THEN hist.run
                 ELSE IF Inside(pitch) THEN hist.run + 1 ELSE 0,
         last |-> IF classified THEN "speech" ELSE "fault",
         pitch |-> IF classified THEN pitch ELSE None,
         sent_oor |-> IF ~tracked THEN hist.sent_oor
                      ELSE IF trackers.sentence
                           THEN hist.sent_oor \/ ~Inside(pitch)
                           ELSE ~Inside(pitch),
         cues |-> hist.cues + (IF cued THEN 1 ELSE 0),
         cue_at |-> IF cued THEN current_time ELSE hist.cue_at]

\* ---------------------------------------------------------------- actions
\* lines 215-225: a block the gate classifies as speech; parse_sample runs
\* to its end or to the fault f, which the inner try catches.
SpeechBlock(pitch, d, f) ==
    /\ pc = "loop"
    /\ Delivers(pitch, d)
    /\ FaultEnabled(f, State, args, pitch, now + d)
    /\ LET s1 == parse_sample(State, args, pitch, now + d, StagesBefore(f))
       IN  /\ trackers' = s1.tr
           /\ out' = s1.out
           /\ hist' = SpeechHist(pitch, now + d, StagesBefore(f), s1.out.played)
           /\ playback' = s1.pb
    /\ now' = now + d
    /\ UNCHANGED <<args, pc, source>>

\* lines 215-228: a block the gate classifies as silence.
SilentBlock(d) ==
    /\ pc = "loop"
    /\ now + d <= source.until
    /\ source.script = <<>>
    /\ LET s1 == silence(State, now + d)
       IN  /\ trackers' = s1.tr
           /\ out' = s1.out
           /\ playback' = s1.pb
    /\ hist' = [hist EXCEPT !.run = 0, !.last = "silent", !.pitch = None]
    /\ now' = now + d
    /\ UNCHANGED <<args, pc, source>>

\* lines 215-220, 235-236: stream.read or is_audio_present raises; the
\* outer except Exception clause ends the loop without a report.
GateFault ==
    /\ pc = "loop"
    /\ pc' = "fatal"
    /\ UNCHANGED <<args, trackers, now, out, hist, source, playback>>

\* lines 230-234: KeyboardInterrupt while the loop waits in stream.read.
Stop ==
    /\ pc = "loop"
    /\ out' = FinalReport(State, args).out
    /\ pc' = "stopped"
    /\ UNCHANGED <<args, trackers, now, hist, source, playback>>

\* lines 223, 230-234: KeyboardInterrupt raised inside parse_sample, between
\* the pitch-range branch and line 143 (an interrupt at any other point
\* leaves the counters the report reads as they are before or after the
\* block).  hist keeps describing the blocks handled to their end.
StopInBlock(pitch, d) ==
    /\ pc = "loop"
    /\ Delivers(pitch, d)
    /\ LET s1 == parse_sample(State, args, pitch, now + d,
                              StagesBefore("interrupt"))
       IN  /\ trackers' = s1.tr
           /\ out' = FinalReport(s1, args).out
           /\ playback' = s1.pb
    /\ now' = now + d
    /\ pc' = "stopped"
    /\ UNCHANGED <<args, hist, source>>

\* lines 98-102: a playback thread started by an earlier request runs _play
\* and ends, at any time between two blocks.
PlaybackThread(sound_key) ==
    /\ pc = "loop"
    /\ playback.threads[sound_key] > 0
    /\ LET w1 == _play([tr |-> trackers, pb |-> playback], sound_key)
       IN  /\ trackers' = w1.tr
           /\ playback' = w1.pb
    /\ UNCHANGED <<args, now, pc, out, hist, source>>

Next ==
    \/ \E pitch \in Pitches, d \in Ticks, f \in Faults :
          SpeechBlock(pitch, d, f)
    \/ \E d \in Ticks : SilentBlock(d)
    \/ GateFault
    \/ Stop
    \/ \E pitch \in Pitches, d \in Ticks : StopInBlock(pitch, d)

Spec == Init /\ [][Next]_vars

\* Sessions of more than a minute of speech, with scoring on or off and the
\* cues off: every block is speech, in range or not, and the formant
\* extraction or the score write may fail.
LongArgs ==
    {[min |-> 100, max |-> 200, sentence_monitor |-> FALSE,
      out_of_range |-> FALSE, resonance |-> TRUE, score |-> sc] :
        sc \in BOOLEAN}

InitLong ==
    \E a \in LongArgs :
        Start(a, [until |-> Epoch + LongHorizon, script |-> <<>>], AllLoaded)

NextLong ==
    \/ \E pitch \in {150, 250}, d \in Ticks, f \in {"none", "formant", "write"} :
          SpeechBlock(pitch, d, f)
    \/ Stop
    \/ \E pitch \in {150, 250}, d \in Ticks : StopInBlock(pitch, d)

SpecLong == InitLong /\ [][NextLong]_vars

\* Sessions whose clock readings are not a whole block apart (0.75 s, 1 s
\* or 1.25 s between blocks), with the two cues on or off: speech in or out
\* of range, pitch faults and silence.
JitterTicks == {3, 4, 5}

JitterArgs ==
    {[min |-> 100, max |-> 200, sentence_monitor |-> sm,
      out_of_range |-> oor, resonance |-> FALSE, score |-> FALSE] :
        sm \in BOOLEAN, oor \in BOOLEAN}

InitJitter ==
    \E a \in JitterArgs :
        Start(a, [until |-> Epoch + Horizon, script |-> <<>>], AllLoaded)

NextJitter ==
    \/ \E pitch \in {150, 250}, d \in JitterTicks, f \in {"none", "pitch"} :
          SpeechBlock(pitch, d, f)
    \/ \E d \in JitterTicks : SilentBlock(d)

SpecJitter == InitJitter /\ [][NextJitter]_vars

\* Sessions with their playback threads, the cues on or off and each
\* outcome of load_sounds: speech in or out of range, pitch faults,
\* silence, and the threads running between the blocks.
InitPlaybackSessions ==
    \E a \in JitterArgs, sounds \in LoadOutcomes :
        Start(a, [until |-> Epoch + Horizon, script |-> <<>>], sounds)

NextPlayback ==
    \/ \E pitch \in {150, 250}, d \in Ticks, f \in {"none", "pitch"} :
          SpeechBlock(pitch, d, f)
    \/ \E d \in Ticks : SilentBlock(d)
    \/ \E sound_key \in SoundKeys : PlaybackThread(sound_key)

SpecPlayback == InitPlaybackSessions /\ [][NextPlayback]_vars

\* Sessions of more than a minute under every combination of the cue and
\* score toggles: they open with Opening seconds of in-range speech, then
\* any blocks follow, in range, out of range or silent, and the operator
\* may stop between any two blocks.
Opening == 56

ToggleArgs ==
    {[min |-> 100, max |-> 200, sentence_monitor |-> sm,
      out_of_range |-> oor, resonance |-> FALSE, score |-> sc] :
        sm \in BOOLEAN, oor \in BOOLEAN, sc \in BOOLEAN}

InitToggles ==
    \E a \in ToggleArgs :
        Start(a, [until |-> Epoch + LongHorizon, script |-> <<>>], AllLoaded)

NextToggles ==
    \/ \E pitch \in {150, 250}, d \in Ticks :
          /\ hist.processed < Opening => pitch = 150
          /\ SpeechBlock(pitch, d, "none")
    \/ \E d \in Ticks :
          /\ hist.processed >= Opening
          /\ SilentBlock(d)
    \/ Stop

SpecToggles == InitToggles /\ [][NextToggles]_vars

\* The sessions of SpecLong in which only the formant extraction fails.
NextFormant ==
    \/ \E pitch \in {150, 250}, d \in Ticks, f \in {"none", "formant"} :
          SpeechBlock(pitch, d, f)
    \/ Stop

SpecFormant == InitLong /\ [][NextFormant]_vars

\* ----------------------------------------------------------------- steps
\* A step in which the loop handled one block to its end and went on.
BlockStep == pc = "loop" /\ pc' = "loop" /\ now' # now

\* A block step on a speech block whose pitch was extracted.
SpeechStep == BlockStep /\ hist'.last = "speech"

\* A block step on a silent block.
SilentStep == BlockStep /\ hist'.last = "silent"

\* |x|
Abs(x) == IF x < 0 THEN 0 - x ELSE x

\* pct (tenths of a percent) is 100 * n / m to the precision of the format.
IsPercentOf(pct, n, m) == 2 * Abs(pct * m - 1000 * n) <= m

\* ------------------------------------------------------------------- C1
\* C1: between blocks, whatever blocks, pitches, toggles and per-block
\* faults came before, in_range_time never exceeds total_time.
C1_InRangeAtMostTotal ==
    pc = "loop" => trackers.in_range_time <= trackers.total_time

\* A faulted block follows blocks that were all in range.
C1_Witness ==
    /\ pc = "loop"
    /\ hist.last = "fault"
    /\ trackers.total_time >= 2
    /\ trackers.in_range_time = trackers.total_time

\* ------------------------------------------------------------------- C2
\* C2: after M processed speech blocks of which N had a pitch inside
\* [min, max], total_time = M, in_range_time = N and the percentage last
\* reported is 100*N/M; after the ten blocks of the worked example the
\* counters are 8 and 10 and the percentage reported is 80.0.
C2_PercentIsShareInRange ==
    pc = "loop" /\ hist.processed > 0 =>
        /\ trackers.total_time = hist.processed
        /\ trackers.in_range_time = hist.inside
        /\ IsPercentOf(out.percent, hist.inside, hist.processed)
        /\ source.script = ExamplePitches
           /\ hist.processed = Len(ExamplePitches) =>
              /\ trackers.in_range_time = 8
              /\ trackers.total_time = 10
              /\ out.percent = 800

\* The worked example has been processed to its last block.
C2_Witness ==
    /\ pc = "loop"
    /\ source.script = ExamplePitches
    /\ hist.processed = 10
    /\ hist.inside = 8
    /\ out.percent = 800

\* ------------------------------------------------------------------- C3
\* C3: with min <= max, a speech block whose pitch is exactly min or
\* exactly max adds one block to in_range_time and to streak, does not set
\* the error flag and requests no error cue.
C3_BoundaryIsInRange ==
    [][SpeechStep /\ args.min <= args.max
         /\ hist'.pitch \in {args.min, args.max} =>
            /\ trackers'.in_range_time = trackers.in_range_time + 1
            /\ trackers'.streak = trackers.streak + 1
            /\ trackers'.error = trackers.error
            /\ "error" \notin out'.played]_vars

\* Two boundary-pitch blocks in a row, the cue enabled.
C3_Witness ==
    /\ pc = "loop"
    /\ hist.last = "speech"
    /\ hist.pitch \in {args.min, args.max}
    /\ args.out_of_range
    /\ trackers.streak = 2
    /\ "error" \notin out.played

\* ------------------------------------------------------------------- C4
\* C4: with sentence monitoring, a sentence of in-range blocks only gets
\* its reward cue at the first silent block at which now - sentence_last
\* exceeds the timeout, that block ends the sentence, and no silent block
\* requests the cue while no sentence is active.
C4_OneRewardPerCleanSentence ==
    [][SilentStep =>
         /\ trackers.sentence /\ ~hist.sent_oor =>
               /\ "pinpon" \in out'.played
                    <=> now' - trackers.sentence_last > SilenceTimeout
               /\ "pinpon" \in out'.played => ~trackers'.sentence
         /\ ~trackers.sentence => "pinpon" \notin out'.played]_vars

\* The reward of a clean sentence, two seconds after its only block.
C4_Witness ==
    /\ pc = "loop"
    /\ hist.last = "silent"
    /\ "pinpon" \in out.played
    /\ ~hist.sent_oor
    /\ ~trackers.sentence
    /\ trackers.sentence_last = trackers.sentence_start
    /\ now - trackers.sentence_last = 8

\* ------------------------------------------------------------------- C5
\* C5: a sentence with an out-of-range block at any position, its first
\* block included, is never rewarded: no silent block requests the reward
\* cue for it.
C5_NoRewardAfterOutOfRange ==
    [][SilentStep /\ "pinpon" \in out'.played => ~hist.sent_oor]_vars

\* ------------------------------------------------------------------- C6
\* C6: with the out-of-range cue enabled, an out-of-range block requests
\* the error cue exactly if no request was made before or the last one is
\* more than the cooldown ago; no other block requests it, so two requests
\* are always more than the cooldown apart.
C6_ErrorCueDebounced ==
    [][BlockStep =>
         /\ "error" \in out'.played /\ hist.cue_at # None =>
               now' - hist.cue_at > ErrorCooldown
         /\ "error" \in out'.played =>
               /\ args.out_of_range
               /\ hist'.last = "speech" /\ ~Inside(hist'.pitch)
         /\ args.out_of_range /\ hist'.last = "speech"
            /\ ~Inside(hist'.pitch) =>
               ("error" \in out'.played
                  <=> hist.cue_at = None
                      \/ now' - hist.cue_at > ErrorCooldown)]_vars

\* The second request of a session.
C6_Witness ==
    /\ pc = "loop"
    /\ "error" \in out.played
    /\ hist.cues = 2
    /\ hist.cue_at = now

\* ------------------------------------------------------------------- C7
\* C7: score.txt is written only when total_time is a positive multiple
\* of 60, and no two writes fall in the same minute of total_time.
C7_OneWritePerMinute ==
    \A i \in 1..Len(out.writes) :
        /\ out.writes[i].at > 0
        /\ out.writes[i].at % Minute = 0
        /\ \A j \in 1..Len(out.writes) :
              i # j =>
                 out.writes[i].at \div Minute # out.writes[j].at \div Minute

\* The write of the first minute, and blocks handled after it.
C7_Witness ==
    /\ pc = "loop"
    /\ args.score
    /\ trackers.total_time = 63
    /\ Len(out.writes) = 1
    /\ out.writes[1].at = 60

\* ------------------------------------------------------------------- C8
\* C8: an operator stop reports the final percentage
\* 100*in_range_time/total_time exactly once if scoring is enabled and
\* total_time > 0, whatever total_time modulo 60, and reports nothing
\* otherwise; nothing is reported before the stop.
C8_FinalReportOnce ==
    /\ pc = "loop" => out.final = <<>>
    /\ pc = "stopped" =>
          IF args.score /\ trackers.total_time > 0
          THEN /\ Len(out.final) = 1
               /\ IsPercentOf(out.final[1], trackers.in_range_time,
                              trackers.total_time)
          ELSE out.final = <<>>

\* A stop off the minute boundary, some blocks out of range.
C8_Witness ==
    /\ pc = "stopped"
    /\ args.score
    /\ trackers.total_time = 61
    /\ trackers.in_range_time = 40
    /\ out.final = <<656>>

\* ------------------------------------------------------------------- C9
\* C9: with min <= max, min = 0 included, a speech block whose pitch is 0
\* leaves in_range_time, resets streak to 0, adds one block to total_time
\* and sets the error flag if a sentence is active.
C9_UndetectedIsOutOfRange ==
    [][SpeechStep /\ args.min <= args.max /\ hist'.pitch = 0 =>
         /\ trackers'.in_range_time = trackers.in_range_time
         /\ trackers'.streak = 0
         /\ trackers'.total_time = trackers.total_time + 1
         /\ trackers.sentence => trackers'.error]_vars

\* ------------------------------------------------------------------ C10
\* C10: streak is 0 after every out-of-range speech block and after every
\* silent block, and always is the seconds of in-range blocks since the
\* last out-of-range or silent block.
C10_StreakResets ==
    pc = "loop" =>
        /\ hist.last = "silent" => trackers.streak = 0
        /\ hist.last = "speech" /\ ~Inside(hist.pitch) => trackers.streak = 0
        /\ trackers.streak = hist.run

\* ------------------------------------------------------------------ C11
\* C11: a silent block ends an active sentence, with or without a recorded
\* error, only if now - sentence_last is greater than the silence timeout;
\* a sentence with an error then ends without a cue and with the error
\* flag cleared, a sentence without one ends with the reward cue.
C11_SentenceEndsOnlyAfterTimeout ==
    [][SilentStep /\ trackers.sentence =>
         /\ ~trackers'.sentence =>
               now' - trackers.sentence_last > SilenceTimeout
         /\ ~trackers'.sentence /\ trackers.error =>
               ~trackers'.error /\ "pinpon" \notin out'.played
         /\ ~trackers'.sentence /\ ~trackers.error =>
               "pinpon" \in out'.played]_vars

\* ------------------------------------------------------------------ C12
\* C12: no fault raised while one block is handled ends the session: the
\* loop ends only by an operator stop.
C12_OnlyStopEndsLoop ==
    [][pc = "loop" => pc' \in {"loop", "stopped"}]_vars

\* ------------------------------------------------------------------ C13
\* C13: the final report sees the updates of every block entirely or not
\* at all: at report time in_range_time <= total_time and the percentage
\* reported is at most 100.
C13_ReportSeesWholeBlocks ==
    pc = "stopped" =>
        /\ trackers.in_range_time <= trackers.total_time
        /\ \A i \in 1..Len(out.final) : out.final[i] <= 1000

\* ------------------------------------------------------------------ C15
\* C15: every block classified as speech adds exactly one block to
\* total_time, a block whose pitch extraction faults included, which is
\* handled as undetected: in_range_time unchanged, streak reset.
C15_EverySpeechBlockCounted ==
    [][BlockStep /\ hist'.last \in {"speech", "fault"} =>
         /\ trackers'.total_time = trackers.total_time + 1
         /\ hist'.last = "fault" =>
               /\ trackers'.in_range_time = trackers.in_range_time
               /\ trackers'.streak = 0]_vars

\* ------------------------------------------------------------------ C17
\* C17: a speech block handled while a sentence is active sets
\* sentence_last to the current time only if the error flag is false after
\* its pitch classification; once the flag is set no block changes
\* sentence_last until the sentence has ended.
C17_ErrorFreezesLastVoiced ==
    [][/\ SpeechStep /\ trackers.sentence =>
             trackers'.sentence_last =
                 IF trackers'.error THEN trackers.sentence_last ELSE now'
       /\ BlockStep /\ trackers.sentence /\ trackers.error =>
             trackers'.sentence_last = trackers.sentence_last]_vars

\* A sentence with an error, two speech blocks after its last good block.
C17_Witness ==
    /\ pc = "loop"
    /\ hist.last = "speech"
    /\ trackers.sentence /\ trackers.error
    /\ trackers.sentence_last > trackers.sentence_start
    /\ now - trackers.sentence_last = 8

\* ------------------------------------------------------------------ C18
\* C18: with sentence monitoring, a speech block handled while no sentence
\* is active starts one with sentence_start = sentence_last = now and the
\* error flag false; no other step changes sentence_start.
C18_SentenceStart ==
    [][/\ SpeechStep /\ args.sentence_monitor /\ ~trackers.sentence =>
             /\ trackers'.sentence
             /\ trackers'.sentence_start = now'
             /\ trackers'.sentence_last = now'
             /\ ~trackers'.error
       /\ trackers'.sentence_start # trackers.sentence_start =>
             SpeechStep /\ ~trackers.sentence /\ trackers'.sentence]_vars

\* The start of a second sentence, by an out-of-range block.
C18_Witness ==
    /\ pc = "loop"
    /\ hist.last = "speech"
    /\ ~Inside(hist.pitch)
    /\ trackers.sentence /\ ~trackers.error
    /\ trackers.sentence_start = now
    /\ trackers.sentence_last = now
    /\ trackers.total_time >= 2

\* ------------------------------------------------------------------ C19
\* C19: a silent block leaves total_time, in_range_time, last_error_time
\* and the score-written guard, requests no error cue and writes no score;
\* with no sentence active it changes no tracker and requests no cue.
C19_SilentBlockFrame ==
    [][SilentStep =>
         /\ trackers'.total_time = trackers.total_time
         /\ trackers'.in_range_time = trackers.in_range_time
         /\ trackers'.last_error_time = trackers.last_error_time
         /\ trackers'.score_written = trackers.score_written
         /\ "error" \notin out'.played
         /\ out'.writes = out.writes
         /\ ~trackers.sentence =>
               trackers' = trackers /\ out'.played = {}]_vars

\* A silent block long after the last sentence ended.
C19_Witness ==
    /\ pc = "loop"
    /\ hist.last = "silent"
    /\ ~trackers.sentence
    /\ trackers.sentence_last # None
    /\ now - trackers.sentence_last >= 12
    /\ out.played = {}

\* ------------------------------------------------------------------ C20
\* C20: with scoring enabled, a speech block that brings total_time to a
\* whole minute writes the score 100*in_range_time/total_time during that
\* block, once, also when the formant extraction fails on that block.
C20_ScoreWrittenAtEveryMinute ==
    [][SpeechStep /\ args.score
         /\ trackers'.total_time = trackers.total_time + 1
         /\ trackers'.total_time % Minute = 0 =>
            /\ Len(out'.writes) = Len(out.writes) + 1
            /\ out'.writes[Len(out'.writes)].at = trackers'.total_time
            /\ IsPercentOf(out'.writes[Len(out'.writes)].pct,
                           trackers'.in_range_time,
                           trackers'.total_time)]_vars

\* A step of a playback thread: one thread fewer in flight, between blocks.
ThreadStep ==
    \E k \in SoundKeys : playback'.threads[k] < playback.threads[k]

\* Some playback thread has been started and has not finished.
ThreadsInFlight == \E k \in SoundKeys : playback.threads[k] > 0

\* The step is a block handled, to its end, as a session whose playback
\* state is pb would have handled it: the same trackers after it.
HandledAs(pb) ==
    LET s0 == [State EXCEPT !.pb = pb]
    IN  /\ SilentStep => trackers' = silence(s0, now').tr
        /\ SpeechStep =>
              trackers' =
                  parse_sample(s0, args, hist'.pitch, now', NumStages).tr

\* C14: a cue is played by a fire-and-forget thread: the step of a playback
\* thread changes no tracker, nothing printed or written, and not the
\* clock or the position of the controller; handling a block never ends or
\* waits for a thread (the threads in flight only grow in a block step) and
\* leaves the trackers of a session that never started a thread, and while
\* threads are in flight the next silent block can be handled.
C14_PlaybackThreadsApart ==
    [][/\ ThreadStep =>
             UNCHANGED <<args, trackers, now, pc, out, hist, source>>
       /\ HandledAs(InitPlayback(playback.SOUNDS))
       /\ BlockStep =>
             \A k \in SoundKeys :
                 playback'.threads[k] =
                     playback.threads[k] + (IF k \in out'.played THEN 1 ELSE 0)
       /\ \A d \in Ticks :
             (ThreadsInFlight /\ pc = "loop" /\ now + d <= source.until
                /\ source.script = <<>>) =>
                 ENABLED SilentBlock(d)]_vars

\* Blocks were handled while the thread of an earlier error cue was still
\* in flight.
C14_Witness ==
    /\ pc = "loop"
    /\ hist.last = "speech"
    /\ playback.threads["error"] >= 1
    /\ "error" \notin out.played
    /\ trackers.total_time >= 3

\* C16: a sound that load_sounds could not load is never played, and a
\* block that requests it is handled as with the sound loaded: the error
\* cue still sets last_error_time and the block is counted, the reward cue
\* still ends the sentence and sets the score, the trackers after the
\* block are those of the session with both sounds loaded, and the loop
\* goes on.
C16_MissingSoundIsSilent ==
    [][/\ \A k \in SoundKeys :
             ~playback.SOUNDS[k] => k \notin playback'.heard
       /\ HandledAs([playback EXCEPT !.SOUNDS = AllLoaded])
       /\ (pc = "loop" /\ now' # now /\ ~playback.SOUNDS["error"]
              /\ "error" \in out'.played) =>
             /\ pc' = "loop"
             /\ trackers'.last_error_time = now'
             /\ trackers'.total_time = trackers.total_time + 1
             /\ trackers'.streak = 0
       /\ (pc = "loop" /\ now' # now /\ ~playback.SOUNDS["pinpon"]
              /\ "pinpon" \in out'.played) =>
             /\ pc' = "loop"
             /\ ~trackers'.sentence
             /\ trackers'.score =
                    100 * (trackers.sentence_last - trackers.sentence_start)
             /\ trackers'.total_time = trackers.total_time]_vars

\* With no sound loaded, two error cues and a reward were requested, their
\* threads have all ended, and nothing was played.
C16_Witness ==
    /\ ~playback.SOUNDS["error"]
    /\ ~playback.SOUNDS["pinpon"]
    /\ hist.cues >= 1
    /\ "pinpon" \in out.played
    /\ playback.threads["error"] = 0
    /\ playback.threads["pinpon"] = 1
    /\ playback.heard = {}
    /\ pc = "loop"

\* A silent block that ends the sentence with the reward cue.
RewardStep == SilentStep /\ "pinpon" \in out'.played

\* C21: when a sentence ends with a reward, the score tracker is set to 100
\* times the productive duration sentence_last - sentence_start of that
\* sentence (line 254), and no other step changes it.
C21_ScoreIsHundredTimesDuration ==
    [][/\ RewardStep =>
             trackers'.score =
                 100 * (trackers.sentence_last - trackers.sentence_start)
       /\ trackers'.score # trackers.score => RewardStep]_vars

\* A rewarded sentence of three blocks: two ticks from its first block to
\* its last, scored 100 times that.
C21_Witness ==
    /\ "pinpon" \in out.played
    /\ trackers.sentence_last - trackers.sentence_start = 8
    /\ trackers.score = 800

\* C21 as stated: at a reward the score tracker equals the productive
\* duration sentence_last - sentence_start itself.
C21_ScoreIsDuration ==
    [][RewardStep =>
          trackers'.score = trackers.sentence_last - trackers.sentence_start]_vars

C23_CountersOrdered ==
    [][/\ 0 <= trackers'.streak
       /\ trackers'.streak <= trackers'.in_range_time
       /\ trackers'.in_range_time <= trackers'.total_time
       /\ trackers'.in_range_time >= trackers.in_range_time
       /\ trackers'.total_time >= trackers.total_time
       /\ trackers'.streak < trackers.streak => trackers'.streak = 0]_vars

\* The three counters of a tracker record.
Counters(tr) == <<tr.in_range_time, tr.total_time, tr.streak>>

\* The command line a with every toggle off.
AllOff(a) ==
    [a EXCEPT !.sentence_monitor = FALSE, !.out_of_range = FALSE,
              !.resonance = FALSE, !.score = FALSE]

\* C24: a disabled feature stays silent for the whole session: without
\* --out-of-range no block requests the error cue or changes
\* last_error_time; without --sentence-monitor the sentence flag is never
\* true and no block requests the reward cue; without --score score.txt is
\* never written and no final score is reported; and after every speech
\* block in_range_time, total_time and streak are those the block gives
\* with every toggle off, and a silent block leaves them as they are.
C24_DisabledFeaturesSilent ==
    [][/\ ~args.out_of_range =>
             /\ "error" \notin out'.played
             /\ trackers'.last_error_time = trackers.last_error_time
       /\ ~args.sentence_monitor =>
             /\ ~trackers'.sentence
             /\ "pinpon" \notin out'.played
       /\ ~args.score =>
             /\ out'.writes = <<>>
             /\ out'.final = <<>>
       /\ SpeechStep =>
             Counters(trackers') =
                 Counters(parse_sample(State, AllOff(args), hist'.pitch,
                                       now', NumStages).tr)
       /\ SilentStep => Counters(trackers') = Counters(trackers)]_vars

\* With every toggle off the session ran past the minute, with blocks out
\* of range and silence, and was stopped: nothing was requested, written or
\* reported.
C24_Witness ==
    /\ pc = "stopped"
    /\ AllOff(args) = args
    /\ trackers.total_time > Minute
    /\ hist.inside < hist.processed
    /\ hist.last = "silent"
    /\ out.writes = <<>>
    /\ out.final = <<>>
    /\ ~trackers.sentence
    /\ trackers.last_error_time = 0

\* C25: last_error_time changes only in a block that requests the error
\* cue, and such a block sets it to its current time; it never decreases;
\* an out-of-range block that requests no cue leaves it unchanged, and
\* between blocks it is the time of the last cue requested (0 before the
\* first), not of the last out-of-range block.
C25_LastErrorTimeFrame ==
    [][/\ trackers'.last_error_time # trackers.last_error_time =>
             now' # now /\ "error" \in out'.played
       /\ (now' # now /\ "error" \in out'.played) =>
             trackers'.last_error_time = now'
       /\ trackers'.last_error_time >= trackers.last_error_time
       /\ (SpeechStep /\ ~Inside(hist'.pitch) /\ "error" \notin out'.played) =>
             trackers'.last_error_time = trackers.last_error_time
       /\ pc' = "loop" =>
             trackers'.last_error_time =
                 IF hist'.cue_at = None THEN 0 ELSE hist'.cue_at]_vars

\* With the cue enabled, an out-of-range block exactly one cooldown after
\* the last cue requested none, and last_error_time is still the time of
\* that cue although out-of-range blocks came in between.
C25_Witness ==
    /\ pc = "loop"
    /\ args.out_of_range
    /\ hist.last = "speech"
    /\ ~Inside(hist.pitch)
    /\ hist.run = 0
    /\ hist.inside = 0
    /\ hist.processed = 5
    /\ "error" \notin out.played
    /\ hist.cues = 1
    /\ trackers.last_error_time = hist.cue_at
    /\ now - trackers.last_error_time = ErrorCooldown

====
